---- MODULE Spec2Model ----
(***************************************************************************)
(* Model of grigored/omega: main.py (search_and_embed_videos and the       *)
(* __main__ block) and video_utils.py (search_videos, download_video,      *)
(* is_valid_id, the exception classification).                             *)
(*                                                                         *)
(* The three collaborators (yt_dlp search, yt_dlp download, ImageBind) are *)
(* external; what each of them does on a given call is an input of the     *)
(* run.  It is fixed in Init (searchEnv, and the dl/msg/post fields of     *)
(* every provider entry) so that "the candidates that would succeed" is a  *)
(* defined quantity of a run.                                              *)
(*                                                                         *)
(* Two specifications:                                                     *)
(*   Spec    the program: search_and_embed_videos(query, num_videos)       *)
(*           followed by the write of the output file;                     *)
(*   SpecDL  one direct call of download_video(video_id, start, end,       *)
(*           proxy) with arbitrary arguments (including video_id = None).  *)
(* The download_video actions are shared by both.                          *)
(***************************************************************************)
EXTENDS Integers, Sequences, FiniteSets, TLC

VARIABLES
    pc,            \* position of the run
    caller,        \* who called download_video: "main" or "direct"
    num_videos,    \* argument of search_and_embed_videos
    searchEnv,     \* what the search provider does: [kind, entries]
    max_results,   \* max_results received by search_videos (-1 before the call)
    results,       \* main.py: results
    i,             \* number of elements of results the for loop has taken
    start,         \* main.py: start (time.time())
    download_path, \* main.py: download_path (NoHandle models None)
    video_metas,   \* main.py: video_metas
    windows,       \* history: for each record, the clip window that was requested
    dl,            \* arguments of the current download_video call
    oracle,        \* what the download provider and the embedder do for this call
    temp_fileobj,  \* video_utils.py: temp_fileobj of the current call
    ret,           \* how the last download_video call ended
    openFiles,     \* temporary files that exist and are not closed
    tempsCreated,  \* history: number of NamedTemporaryFile calls
    requests,      \* history: requests issued to the download provider
    exc,           \* exception that escaped search_and_embed_videos
    output_written \* sample_output.txt has been written

vars == <<pc, caller, num_videos, searchEnv, max_results, results, i, start,
          download_path, video_metas, windows, dl, oracle, temp_fileobj, ret,
          openFiles, tempsCreated, requests, exc, output_written>>

(***************************************************************************)
(* Bounds                                                                  *)
(***************************************************************************)
MaxTarget == 2      \* num_videos ranges over 0..MaxTarget
MaxCand == 2        \* the search provider returns at most MaxCand entries

(***************************************************************************)
(* Program constants and values                                            *)
(***************************************************************************)
MAX_DURATION == 120

NoHandle == 0

NoneStr == [none |-> TRUE, val |-> ""]
NoneInt == [none |-> TRUE, val |-> 0]
Some(v) == [none |-> FALSE, val |-> v]

Min(a, b) == IF a <= b THEN a ELSE b

\* `p in s` for Python strings
Contains(s, p) ==
    \E k \in 1..(Len(s) - Len(p) + 1) : SubSeq(s, k, k + Len(p) - 1) = p

(***************************************************************************)
(* video_utils.py                                                          *)
(***************************************************************************)
is_valid_id_short(youtube_id) ==
    (~youtube_id.none) /\ Len(youtube_id.val) <= 11

is_valid_id(youtube_id) ==
    (~youtube_id.none) /\ Len(youtube_id.val) = 11

BlockedPhrases ==
    {"Your IP is likely being blocked by Youtube",
     "Requested format is not available"}

FakePhrases ==
    {"Video unavailable", "is not a valid URL", "Incomplete YouTube ID"}

\* the mutant checks the two families of phrases in the other order
ClassifyFakeFirst(msg) ==
    IF \E p \in FakePhrases : Contains(msg, p) THEN "FakeVideoException"
    ELSE IF \E p \in BlockedPhrases : Contains(msg, p) THEN "IPBlockedException"
    ELSE "None"

\* lines 110-119: what the except block of download_video does with str(e)
Classify(msg) ==
    IF \E p \in BlockedPhrases : Contains(msg, p) THEN "IPBlockedException"
    ELSE IF \E p \in FakePhrases : Contains(msg, p) THEN "FakeVideoException"
    ELSE "None"

Returned(h) == [kind |-> "return", exc |-> "", handle |-> h]
Raised(e) == [kind |-> "raise", exc |-> e, handle |-> NoHandle]
NoRet == [kind |-> "none", exc |-> "", handle |-> NoHandle]

\* temp_fileobj.close() of a NamedTemporaryFile: the file is closed and deleted
CloseTemp(files, h) == files \ {h}

\* YoutubeResult(...) for one provider entry, lines 59-65
YoutubeResult(entry) ==
    [video_id |-> entry.id,
     length |-> IF entry.duration # 0 THEN entry.duration ELSE MAX_DURATION]

BuildVideos(entries) == [k \in 1..Len(entries) |-> YoutubeResult(entries[k])]

search_videos_partial(env) ==
    IF env.kind = "raise_extract" THEN <<>> ELSE BuildVideos(env.entries)

\* search_videos, lines 43-70: the value it returns
search_videos(env) ==
    IF env.kind = "ok" THEN BuildVideos(env.entries) ELSE <<>>

(***************************************************************************)
(* main.py                                                                 *)
(***************************************************************************)
OverfetchCeil(n) == (n * 3 + 1) \div 2

\* int(num_videos * 1.5), line 24: the product is exact for these values and
\* int() truncates towards zero, which is the floor for num_videos >= 0
Overfetch(n) == (n * 3) \div 2

ShouldBreakLate(metas, n) == Len(metas) = n + 1

\* line 50
ShouldBreak(metas, n) == Len(metas) = n

\* download_path.close() in the finally block, lines 48-49
ReleaseLeak(files, h) == files

Release(files, h) == files \ {h}

\* time.time(), line 29: seconds since the epoch of a present-day clock
ClockValues == {1700000000, 1700000060}

\* VideoMetadata(...), lines 39-47
VideoMetadata(result, st) ==
    [video_id |-> result.video_id,
     start_time |-> st,
     end_time |-> MAX_DURATION]

(***************************************************************************)
(* The environment: what the collaborators do                              *)
(***************************************************************************)
\* str(e) of the exceptions the download provider raises
Messages ==
    {"ERROR: [youtube] Sign in to confirm. Your IP is likely being blocked by Youtube",
     "ERROR: [youtube] Requested format is not available",
     "ERROR: [youtube] Video unavailable",
     "ERROR: 'watch' is not a valid URL",
     "ERROR: [youtube] Incomplete YouTube ID",
     "ERROR: [youtube] Video unavailable. Requested format is not available",
     "ERROR: [youtube] video unavailable",
     "ERROR: unable to download video data: HTTP Error 403"}

\* one message of each class, for the runs of the whole program
MainMessages ==
    {"ERROR: [youtube] Requested format is not available",
     "ERROR: [youtube] Video unavailable",
     "ERROR: unable to download video data: HTTP Error 403"}

\* the steps of the try body: all succeed, or one of them raises
PostSteps == {"ok", "get_description", "embed", "VideoMetadata"}

\* what happens to one download: the provider raises msg, or leaves an empty
\* file (a skipped live video, a transient failure), or leaves a media file
Outcomes(msgs) ==
    {[dl |-> "handle", msg |-> "", post |-> p] : p \in PostSteps}
    \cup {[dl |-> "empty", msg |-> "", post |-> "ok"]}
    \cup {[dl |-> "raise", msg |-> m, post |-> "ok"] : m \in msgs}

\* entry["duration"]: 0 stands for an absent (falsy) duration
Durations == {0, 50, 300}

\* entry["id"] of the k-th entry: an 11-character id, or a malformed one
ValidIds == <<"dQw4w9WgXcQ", "9bZkp7q19f0", "kJQP7kiw5Fk", "JGwWNGJdvx8">>
BadId == "dQw4w9WgXc"

AbsEntries ==
    {[idOk |-> TRUE, duration |-> d, out |-> o] :
        d \in Durations, o \in Outcomes(MainMessages)}
    \cup {[idOk |-> FALSE, duration |-> d,
           out |-> [dl |-> "handle", msg |-> "", post |-> "ok"]] : d \in Durations}

Entry(a, k) ==
    [id |-> IF a.idOk THEN ValidIds[k] ELSE BadId,
     duration |-> a.duration,
     dl |-> a.out.dl, msg |-> a.out.msg, post |-> a.out.post]

SearchEnvs ==
    {[kind |-> "raise_extract", entries |-> <<>>]}
    \cup {[kind |-> "raise_build", entries |-> <<Entry(a, 1)>>] : a \in AbsEntries}
    \cup UNION {{[kind |-> "ok", entries |-> [k \in 1..n |-> Entry(abs[k], k)]] :
                    abs \in [1..n -> AbsEntries]} : n \in 0..MaxCand}

\* arguments of a direct call of download_video
DirectIds ==
    {NoneStr, Some(""), Some("dQw4w9WgXc"), Some("dQw4w9WgXcQ"),
     Some("9bZkp7q19f0"), Some("dQw4w9WgXcQ0")}

DirectArgs ==
    [video_id : DirectIds,
     start : {NoneInt, Some(0)},
     end : {NoneInt, Some(50)},
     proxy : {NoneStr, Some("socks5://127.0.0.1:9050")}]

NoArgs == [video_id |-> NoneStr, start |-> NoneInt, end |-> NoneInt, proxy |-> NoneStr]
NoOracle == [dl |-> "handle", msg |-> "", post |-> "ok"]

(***************************************************************************)
(* Initial states                                                          *)
(***************************************************************************)
InitCommon ==
    /\ max_results = -1
    /\ results = <<>>
    /\ i = 0
    /\ start = 0
    /\ download_path = NoHandle
    /\ video_metas = <<>>
    /\ windows = <<>>
    /\ temp_fileobj = NoHandle
    /\ ret = NoRet
    /\ openFiles = {}
    /\ tempsCreated = 0
    /\ requests = <<>>
    /\ exc = ""
    /\ output_written = FALSE

\* python main.py, with the target count as a parameter
Init ==
    /\ pc = "main_start"
    /\ caller = "main"
    /\ num_videos \in 0..MaxTarget
    /\ searchEnv \in SearchEnvs
    /\ dl = NoArgs
    /\ oracle = NoOracle
    /\ InitCommon

\* download_video(video_id, start, end, proxy) called on its own
InitDL ==
    /\ pc = "dl_validate"
    /\ caller = "direct"
    /\ num_videos = 0
    /\ searchEnv = [kind |-> "raise_extract", entries |-> <<>>]
    /\ dl \in DirectArgs
    /\ oracle \in Outcomes(Messages)
    /\ oracle.post = "ok"
    /\ InitCommon

(***************************************************************************)
(* download_video                                                          *)
(***************************************************************************)
DlExit == IF caller = "main" THEN "after_download" ELSE "done"

\* lines 76-77
DlValidate ==
    /\ pc = "dl_validate"
    /\ IF ~is_valid_id(dl.video_id)
       THEN /\ ret' = Raised("FakeVideoException")
            /\ pc' = DlExit
       ELSE /\ pc' = "dl_temp"
            /\ UNCHANGED ret
    /\ UNCHANGED <<caller, num_videos, searchEnv, max_results, results, i, start,
                   download_path, video_metas, windows, dl, oracle, temp_fileobj,
                   openFiles, tempsCreated, requests, exc, output_written>>

\* line 81
DlCreateTemp ==
    /\ pc = "dl_temp"
    /\ tempsCreated' = tempsCreated + 1
    /\ temp_fileobj' = tempsCreated + 1
    /\ openFiles' = openFiles \cup {tempsCreated + 1}
    /\ pc' = "dl_provider"
    /\ UNCHANGED <<caller, num_videos, searchEnv, max_results, results, i, start,
                   download_path, video_metas, windows, dl, oracle, ret,
                   requests, exc, output_written>>

\* lines 79, 82-95: what the provider is asked for
Request(args) ==
    [url |-> "https://www.youtube.com/watch?v=" \o args.video_id.val,
     download_ranges |->
        IF (~args.start.none) /\ (~args.end.none)
        THEN [none |-> FALSE, start_time |-> args.start.val, end_time |-> args.end.val]
        ELSE [none |-> TRUE, start_time |-> 0, end_time |-> 0],
     proxy |-> args.proxy]

\* lines 97-99 and the except block, lines 108-119
DlProvider ==
    /\ pc = "dl_provider"
    /\ requests' = Append(requests, Request(dl))
    /\ IF oracle.dl = "raise"
       THEN /\ openFiles' = CloseTemp(openFiles, temp_fileobj)
            /\ ret' = IF Classify(oracle.msg) = "None"
                      THEN Returned(NoHandle)
                      ELSE Raised(Classify(oracle.msg))
            /\ pc' = DlExit
       ELSE /\ pc' = "dl_stat"
            /\ UNCHANGED <<openFiles, ret>>
    /\ UNCHANGED <<caller, num_videos, searchEnv, max_results, results, i, start,
                   download_path, video_metas, windows, dl, oracle, temp_fileobj,
                   tempsCreated, exc, output_written>>

\* lines 101-107
DlStat ==
    /\ pc = "dl_stat"
    /\ IF oracle.dl = "empty"
       THEN /\ openFiles' = CloseTemp(openFiles, temp_fileobj)
            /\ ret' = Returned(NoHandle)
       ELSE /\ ret' = Returned(temp_fileobj)
            /\ UNCHANGED openFiles
    /\ pc' = DlExit
    /\ UNCHANGED <<caller, num_videos, searchEnv, max_results, results, i, start,
                   download_path, video_metas, windows, dl, oracle, temp_fileobj,
                   tempsCreated, requests, exc, output_written>>

NextDL == DlValidate \/ DlCreateTemp \/ DlProvider \/ DlStat

SpecDL == InitDL /\ [][NextDL]_vars

(***************************************************************************)
(* search_and_embed_videos and the __main__ block                          *)
(***************************************************************************)
\* line 24 (and line 26): the search, with everything search_videos does
CallSearch ==
    /\ pc = "main_start"
    /\ max_results' = Overfetch(num_videos)
    /\ results' = search_videos(searchEnv)
    /\ video_metas' = <<>>
    /\ pc' = "loop"
    /\ UNCHANGED <<caller, num_videos, searchEnv, i, start, download_path,
                   windows, dl, oracle, temp_fileobj, ret, openFiles,
                   tempsCreated, requests, exc, output_written>>

\* lines 28-34: the loop takes the next result and calls download_video
LoopTake ==
    /\ pc = "loop"
    /\ i < Len(results)
    /\ i' = i + 1
    /\ start' \in ClockValues
    /\ dl' = [video_id |-> Some(results[i + 1].video_id),
              start |-> Some(0),
              end |-> Some(Min(results[i + 1].length, MAX_DURATION)),
              proxy |-> NoneStr]
    /\ oracle' = [dl |-> searchEnv.entries[i + 1].dl,
                  msg |-> searchEnv.entries[i + 1].msg,
                  post |-> searchEnv.entries[i + 1].post]
    /\ ret' = NoRet
    /\ pc' = "dl_validate"
    /\ UNCHANGED <<caller, num_videos, searchEnv, max_results, results,
                   download_path, video_metas, windows, temp_fileobj, openFiles,
                   tempsCreated, requests, exc, output_written>>

\* line 28, results exhausted
LoopExhausted ==
    /\ pc = "loop"
    /\ i >= Len(results)
    /\ pc' = "return"
    /\ UNCHANGED <<caller, num_videos, searchEnv, max_results, results, i, start,
                   download_path, video_metas, windows, dl, oracle, temp_fileobj,
                   ret, openFiles, tempsCreated, requests, exc, output_written>>

\* lines 30-35: download_video has ended; an exception it raised is not caught
AfterDownload ==
    /\ pc = "after_download"
    /\ IF ret.kind = "raise"
       THEN /\ exc' = ret.exc
            /\ pc' = "terminated"
            /\ UNCHANGED download_path
       ELSE /\ download_path' = ret.handle
            /\ pc' = IF ret.handle # NoHandle THEN "try_body" ELSE "check_break"
            /\ UNCHANGED exc
    /\ UNCHANGED <<caller, num_videos, searchEnv, max_results, results, i, start,
                   video_metas, windows, dl, oracle, temp_fileobj, ret, openFiles,
                   tempsCreated, requests, output_written>>

\* lines 36-49: the try body and its finally block
TryBody ==
    /\ pc = "try_body"
    /\ openFiles' = Release(openFiles, download_path)
    /\ IF oracle.post = "ok"
       THEN /\ video_metas' = Append(video_metas, VideoMetadata(results[i], start))
            /\ windows' = Append(windows,
                    [cand |-> i,
                     start_time |-> requests[Len(requests)].download_ranges.start_time,
                     end_time |-> requests[Len(requests)].download_ranges.end_time])
            /\ pc' = "check_break"
            /\ UNCHANGED exc
       ELSE /\ exc' = "UnclassifiedException"
            /\ pc' = "terminated"
            /\ UNCHANGED <<video_metas, windows>>
    /\ UNCHANGED <<caller, num_videos, searchEnv, max_results, results, i, start,
                   download_path, dl, oracle, temp_fileobj, ret, tempsCreated,
                   requests, output_written>>

\* lines 50-51
CheckBreak ==
    /\ pc = "check_break"
    /\ pc' = IF ShouldBreak(video_metas, num_videos) THEN "return" ELSE "loop"
    /\ UNCHANGED <<caller, num_videos, searchEnv, max_results, results, i, start,
                   download_path, video_metas, windows, dl, oracle, temp_fileobj,
                   ret, openFiles, tempsCreated, requests, exc, output_written>>

\* line 53 and lines 59-61
WriteOutput ==
    /\ pc = "return"
    /\ output_written' = TRUE
    /\ pc' = "done"
    /\ UNCHANGED <<caller, num_videos, searchEnv, max_results, results, i, start,
                   download_path, video_metas, windows, dl, oracle, temp_fileobj,
                   ret, openFiles, tempsCreated, requests, exc>>

Next ==
    \/ CallSearch
    \/ LoopTake
    \/ LoopExhausted
    \/ DlValidate
    \/ DlCreateTemp
    \/ DlProvider
    \/ DlStat
    \/ AfterDownload
    \/ TryBody
    \/ CheckBreak
    \/ WriteOutput

Spec == Init /\ [][Next]_vars

(***************************************************************************)
(* Properties                                                              *)
(***************************************************************************)
Take(seq, n) == SubSeq(seq, 1, n)

\* C1: the collection of records never holds more than num_videos records,
\* at any point of the loop and at return.
C1_OutputWithinTarget == Len(video_metas) <= num_videos

\* C2: every appended record satisfies 0 <= start_time < end_time <= MAX_DURATION.
C2_RecordWindowOrdered ==
    \A k \in 1..Len(video_metas) :
        /\ 0 <= video_metas[k].start_time
        /\ video_metas[k].start_time < video_metas[k].end_time
        /\ video_metas[k].end_time <= MAX_DURATION

\* C3: a record's end_time is the end of the clip window requested from
\* download_video for its candidate, min(candidate duration, MAX_DURATION),
\* and its start_time is the window start 0.
C3_RecordWindowIsRequested ==
    \A k \in 1..Len(video_metas) :
        /\ video_metas[k].end_time = windows[k].end_time
        /\ video_metas[k].end_time = Min(results[windows[k].cand].length, 120)
        /\ video_metas[k].start_time = windows[k].start_time
        /\ video_metas[k].start_time = 0

C5_InvalidIdRejectedFirst ==
    /\ (pc # "dl_validate" /\ (dl.video_id.none \/ Len(dl.video_id.val) # 11)) =>
            /\ pc = "done"
            /\ ret = [kind |-> "raise", exc |-> "FakeVideoException", handle |-> 0]
            /\ tempsCreated = 0
            /\ openFiles = {}
            /\ requests = <<>>
    /\ (pc = "done" /\ (~dl.video_id.none) /\ Len(dl.video_id.val) = 11) =>
            /\ tempsCreated = 1
            /\ Len(requests) = 1
            /\ requests[1].url = "https://www.youtube.com/watch?v=" \o dl.video_id.val

C5_Witness ==
    /\ pc = "done"
    /\ dl.video_id.none
    /\ ret.kind = "raise"
    /\ ret.exc = "FakeVideoException"

\* C6: at most one temporary file is open at any point, and every file opened
\* by download_video is closed before the next candidate's download begins
\* and before the run leaves search_and_embed_videos, by whatever path.
C6_OneMediaFileReleased ==
    /\ Cardinality(openFiles) <= 1
    /\ openFiles # {} => openFiles = {tempsCreated}
    /\ pc \in {"main_start", "loop", "dl_validate", "dl_temp", "check_break",
               "return", "done", "terminated"} => openFiles = {}

C6_Witness ==
    /\ pc = "terminated"
    /\ exc = "UnclassifiedException"
    /\ oracle.post = "embed"
    /\ tempsCreated = 2
    /\ openFiles = {}

\* the candidates, in provider order, whose download returns a handle and
\* whose description, embedding and record construction succeed
Succeeds(k) ==
    /\ Len(searchEnv.entries[k].id) = 11
    /\ searchEnv.entries[k].dl = "handle"
    /\ searchEnv.entries[k].post = "ok"

RECURSIVE SuccessfulIds(_)
SuccessfulIds(n) ==
    IF n = 0 THEN <<>>
    ELSE IF Succeeds(n)
         THEN Append(SuccessfulIds(n - 1), results[n].video_id)
         ELSE SuccessfulIds(n - 1)

\* C7: a run that returns normally with N >= 1 returns, in provider order,
\* the first min(N, k) of the k candidates whose download and embedding succeed.
C7_FirstSuccessfulCandidates ==
    (pc \in {"return", "done"} /\ num_videos >= 1) =>
        LET succ == SuccessfulIds(Len(results))
            ids == [k \in 1..Len(video_metas) |-> video_metas[k].video_id]
        IN  ids = Take(succ, Min(num_videos, Len(succ)))

C7_Witness ==
    /\ pc = "done"
    /\ num_videos >= 1
    /\ Len(video_metas) = num_videos
    /\ i < Len(results)
    /\ Succeeds(Len(results))

\* C8: when the search provider raises inside search_videos, search_videos
\* returns an empty list, and search_and_embed_videos returns an empty
\* collection without any download attempt and without an exception.
C8_SearchFailureIsEmpty ==
    (searchEnv.kind # "ok" /\ pc # "main_start") =>
        /\ results = <<>>
        /\ video_metas = <<>>
        /\ tempsCreated = 0
        /\ requests = <<>>
        /\ exc = ""
        /\ pc \in {"loop", "return", "done"}
        /\ pc = "done" => output_written

C8_Witness ==
    /\ searchEnv.kind = "raise_build"
    /\ Len(searchEnv.entries) = 1
    /\ pc = "done"
    /\ output_written

\* C9: a terminating run either completes and writes the output file, or
\* terminates on FakeVideoException or IPBlockedException; no other failure
\* of a per-candidate step terminates it.
C9_OnlyClassifiedTermination ==
    pc \in {"done", "terminated"} =>
        \/ pc = "done" /\ output_written /\ exc = ""
        \/ /\ pc = "terminated"
           /\ ~output_written
           /\ exc \in {"FakeVideoException", "IPBlockedException"}

HasBlockedPhrase(msg) ==
    \/ Contains(msg, "Your IP is likely being blocked by Youtube")
    \/ Contains(msg, "Requested format is not available")

HasFakePhrase(msg) ==
    \/ Contains(msg, "Video unavailable")
    \/ Contains(msg, "is not a valid URL")
    \/ Contains(msg, "Incomplete YouTube ID")

\* C10: for a valid id, an exception of the download provider ends the call,
\* with the temporary file closed, in IPBlockedException if the message has a
\* blocked phrase, otherwise in FakeVideoException if it has a fake-video
\* phrase, otherwise in the return of None.
C10_ExceptionClassification ==
    (pc = "done" /\ Len(requests) = 1 /\ oracle.dl = "raise") =>
        /\ openFiles = {}
        /\ tempsCreated = 1
        /\ HasBlockedPhrase(oracle.msg) =>
                ret = [kind |-> "raise", exc |-> "IPBlockedException", handle |-> 0]
        /\ (~HasBlockedPhrase(oracle.msg) /\ HasFakePhrase(oracle.msg)) =>
                ret = [kind |-> "raise", exc |-> "FakeVideoException", handle |-> 0]
        /\ (~HasBlockedPhrase(oracle.msg) /\ ~HasFakePhrase(oracle.msg)) =>
                ret = [kind |-> "return", exc |-> "", handle |-> 0]

C10_Witness ==
    /\ pc = "done"
    /\ oracle.dl = "raise"
    /\ HasBlockedPhrase(oracle.msg)
    /\ HasFakePhrase(oracle.msg)
    /\ ret.exc = "IPBlockedException"

====
